---- MODULE Spec2Model ----
(***************************************************************************)
(* Library Management System - REST API client (vanilla JS SPA).           *)
(* Model of the client-side response cache (apiCache), the token kept in   *)
(* localStorage and apiRequest, the helper every view uses to talk to the  *)
(* REST server.  An apiRequest call is an async function: it runs          *)
(* synchronously up to `await fetch`, resumes when fetch settles, and      *)
(* (unless it returned on the 304 path) resumes once more when             *)
(* `await response.json()` settles.  Several calls can be in flight.       *)
(***************************************************************************)
EXTENDS Integers, Sequences, FiniteSets, TLC

(* ---------------------------- bounds ----------------------------------- *)
\* the clock runs from 0 to MaxClock ticks
MaxClock == 2
\* milliseconds of Date.now() per tick of the model clock
TickMs == 60000
\* the server content is revised at most MaxVer times
MaxVer == 1
\* the call slots: how many apiRequest calls can be in flight together
Slots == {"a", "b"}
\* the user performs at most MaxOps operations (clicks, form submissions)
MaxOps == 3
\* the tokens the auth endpoint hands out
Tokens == {"t1", "t2"}

(* ------------------------- program constants --------------------------- *)
API_BASE_URL == <<"http://localhost:5000/api">>
\* default of the maxAge parameter of getCachedResponse, in seconds
DefaultMaxAge == 60

\* localStorage.getItem of a key that is not stored
NoToken == "null"
NoUser == "null"
\* response.headers.get('ETag') of a response without the header; also a
\* request without If-None-Match
NoETag == 0
\* response.headers.get('Cache-Control') without a max-age directive
NoMaxAge == 0
\* a request without an Authorization header
NoAuth == <<>>

(* URLs are sequences of path pieces; String.prototype.includes is the     *)
(* search for a contiguous run of pieces.                                  *)
includes(key, pattern) ==
    \E i \in 1..(Len(key) - Len(pattern) + 1) :
        SubSeq(key, i, i + Len(pattern) - 1) = pattern

\* the calls the views make: [method, endpoint]
GetCalls ==
    { [method |-> "GET", endpoint |-> <<"/statistics">>],
      [method |-> "GET", endpoint |-> <<"/books", "?page=1&per_page=10">>],
      [method |-> "GET", endpoint |-> <<"/borrow-records", "?page=1&per_page=10">>] }

MutationCalls ==
    { [method |-> "POST",   endpoint |-> <<"/books">>],
      [method |-> "DELETE", endpoint |-> <<"/books", "/1">>],
      [method |-> "PUT",    endpoint |-> <<"/borrow-records", "/1", "/return">>] }

Calls == GetCalls \cup MutationCalls

\* !options.method || options.method === 'GET'
isGet(method) == method = "GET"

\* ['POST', 'PUT', 'DELETE'].includes(options.method)
isMutation(method) == method \in {"POST", "PUT", "DELETE"}

\* const fullUrl = `${API_BASE_URL}${endpoint}`
fullUrl(endpoint) == API_BASE_URL \o endpoint

(* ------------------------------ state ---------------------------------- *)
VARIABLES
    apiCache,     \* the Map: fullUrl -> [data, etag, timestamp]
    token,        \* localStorage 'jwt_token'
    username,     \* localStorage 'username'
    view,         \* the active view
    loginTimer,   \* the setTimeout of a successful login is pending
    alert,        \* the alert the last step passed to showAlert, if any
    clock,        \* ticks of wall-clock time
    srvVer,       \* revision of the server's data
    req,          \* the apiRequest calls, one per slot
    returned,     \* the value the last step returned from apiRequest, if any
    ops,          \* number of operations the user has performed
    acked,        \* highest server revision a returned /books mutation reported
    prev          \* the last completed call, while nothing else has happened

\* the server: its store, the calls it is handling, and a list query
VARIABLES
    books,        \* the Book documents: id -> [isbn, quantity, available]
    records,      \* the BorrowRecord documents, in order of creation
    nextId,       \* the id the next created book gets
    pending,      \* the call of each caller the server has not handled yet
    result,       \* the outcome of the call handled in the last step, if any
    race,         \* two borrow calls for the last copy of a book are under way
    listing       \* a list query and its pagination result

\* the list views of the later client: their pager, the search timer, the
\* list and delete requests in flight and what the tables show
VARIABLES
    strip,                \* a pagination result and the page buttons rendered for it
    currentPage,          \* currentPage: list type -> the page loaded last
    searchDebounceTimer,  \* the id setTimeout returned last, 0 for null
    timeouts,             \* the browser's pending timeouts: [id, type, left]
    loads,                \* the list and delete requests in flight, oldest first
    shown,                \* list type -> what its table, range and pager show
    matches,              \* list type -> documents the server's query matches
    typed,                \* the debounceSearch calls so far and since the last reload
    fired,                \* the reload the search timer started in the last step
    latest,               \* what became of the loadBooks call issued last
    clicks                \* clicks on page buttons and delete buttons so far

clientVars == <<apiCache, token, username, view, loginTimer, alert, clock, srvVer,
                req, returned, ops, acked, prev>>
storeVars == <<books, records, nextId, pending, result, race>>
pageVars == <<listing>>
stripVars == <<strip>>
viewVars == <<currentPage, searchDebounceTimer, timeouts, loads, shown, matches,
              typed, fired, latest, clicks>>
listVars == <<stripVars, viewVars>>

vars == <<clientVars, storeVars, pageVars, listVars>>

\* Date.now()
DateNow == clock * TickMs

NoBody == [present |-> FALSE, success |-> FALSE, data |-> 0]
NoResp == [status |-> 0, etag |-> NoETag, maxAge |-> NoMaxAge, body |-> NoBody]
NoRet  == [kind |-> "none", ok |-> FALSE, status |-> 0, result |-> NoBody]
\* return null
NullRet == [kind |-> "null", ok |-> FALSE, status |-> 0, result |-> NoBody]

\* a call slot: the call's position, its request, the response on its way,
\* and two records about the call: what its lookup did to the cache, and the
\* value of acked when it was issued
IdleReq == [pc |-> "idle", method |-> "GET", endpoint |-> <<>>,
            auth |-> NoAuth, inm |-> NoETag, resp |-> NoResp,
            lookup |-> "none", floor |-> 0]

\* no apiRequest call returned in the last step
NoReturn == [by |-> "none", via |-> "none", endpoint |-> <<>>, ret |-> NoRet,
             lookup |-> "none", stored |-> "no", dropped |-> {}]

NoPrev == [url |-> <<>>, result |-> NoBody, stage |-> "none", by |-> "none"]

NullEntry == [data |-> NoBody, etag |-> NoETag, timestamp |-> 0]

(* --------------------------- cache management -------------------------- *)
expired_ms(cached, now, maxAge) == (now - cached.timestamp) > maxAge

\* age > maxAge, with age = (Date.now() - cached.timestamp) / 1000
expired(cached, now, maxAge) == (now - cached.timestamp) > maxAge * 1000

getCachedResponse_evict(cache, url, now) ==
    IF url \notin DOMAIN cache
    THEN [found |-> FALSE, cached |-> NullEntry, cache |-> cache]
    ELSE [found |-> ~expired(cache[url], now, DefaultMaxAge),
          cached |-> IF expired(cache[url], now, DefaultMaxAge)
                     THEN NullEntry ELSE cache[url],
          cache |-> [k \in DOMAIN cache \ {url} |-> cache[k]]]

\* getCachedResponse(url): the entry found (or none) and the map afterwards
getCachedResponse(cache, url, now) ==
    IF url \notin DOMAIN cache
    THEN [found |-> FALSE, cached |-> NullEntry, cache |-> cache]
    ELSE IF expired(cache[url], now, DefaultMaxAge)
         THEN [found |-> FALSE, cached |-> NullEntry,
               cache |-> [k \in DOMAIN cache \ {url} |-> cache[k]]]
         ELSE [found |-> TRUE, cached |-> cache[url], cache |-> cache]

\* setCachedResponse(url, data, etag)
setCachedResponse(cache, url, data, etag, now) ==
    [k \in DOMAIN cache \cup {url} |->
        IF k = url THEN [data |-> data, etag |-> etag, timestamp |-> now]
        ELSE cache[k]]

\* clearCache(pattern)
clearCache(cache, pattern) ==
    [k \in {u \in DOMAIN cache : ~includes(u, pattern)} |-> cache[k]]

clearCacheAll_keep(cache) == cache

\* clearCache() without a pattern: apiCache.clear()
clearCacheAll(cache) == [k \in {} |-> NullEntry]

invalidate_noStatistics(cache, endpoint) ==
    IF includes(endpoint, <<"/books">>)
    THEN clearCache(cache, <<"/books">>)
    ELSE IF includes(endpoint, <<"/borrow-records">>)
         THEN clearCache(clearCache(cache, <<"/borrow-records">>), <<"/books">>)
         ELSE cache

\* the purge after a mutation
invalidate(cache, endpoint) ==
    IF includes(endpoint, <<"/books">>)
    THEN clearCache(clearCache(cache, <<"/books">>), <<"/statistics">>)
    ELSE IF includes(endpoint, <<"/borrow-records">>)
         THEN clearCache(clearCache(clearCache(cache, <<"/borrow-records">>),
                                    <<"/books">>), <<"/statistics">>)
         ELSE cache

authHeader_bare(tok) == IF tok # NoToken THEN <<tok>> ELSE NoAuth

\* config.headers['Authorization'] = `Bearer ${token}` when a token is stored
authHeader(tok) == IF tok # NoToken THEN <<"Bearer", tok>> ELSE NoAuth

conditionalHeader_never(method, lookup) == NoETag

\* config.headers['If-None-Match'] = cached.etag when an entry was found
conditionalHeader(method, lookup) ==
    IF isGet(method) /\ lookup.found /\ lookup.cached.etag # NoETag
    THEN lookup.cached.etag
    ELSE NoETag

(* ------------------------------ server --------------------------------- *)
\* the validator the server issues for a revision of its data
ETagOf(ver) == ver + 1

ErrorBody == [present |-> TRUE, success |-> FALSE, data |-> 0]
OkBody(ver) == [present |-> TRUE, success |-> TRUE, data |-> ver]

\* Cache-Control: max-age=N of the list endpoints, in seconds
ListMaxAge == 120

\* the max-age the server sends with a cacheable response: the lists carry
\* max-age=ListMaxAge, the statistics carry no max-age
CacheControlOf(endpoint) ==
    IF includes(endpoint, <<"/statistics">>) THEN NoMaxAge ELSE ListMaxAge

\* the responses the server can give to the request of slot r
Responses(q) ==
    { [status |-> 401, etag |-> NoETag, maxAge |-> NoMaxAge, body |-> ErrorBody],
      [status |-> 400, etag |-> NoETag, maxAge |-> NoMaxAge, body |-> ErrorBody] }
    \cup
    IF isGet(q.method)
    THEN IF q.inm # NoETag /\ q.inm = ETagOf(srvVer)
         THEN { [status |-> 304, etag |-> ETagOf(srvVer),
                 maxAge |-> CacheControlOf(q.endpoint), body |-> NoBody] }
         ELSE { [status |-> 200, etag |-> ETagOf(srvVer),
                 maxAge |-> CacheControlOf(q.endpoint), body |-> OkBody(srvVer)],
                [status |-> 200, etag |-> NoETag,
                 maxAge |-> NoMaxAge, body |-> OkBody(srvVer)] }
    ELSE IF srvVer < MaxVer
         THEN { [status |-> 200, etag |-> NoETag, maxAge |-> NoMaxAge,
                 body |-> OkBody(srvVer + 1)] }
         ELSE {}

\* response.ok
ok(status) == status \in 200..299

\* the server has applied a mutation
applied(q, resp) == isMutation(q.method) /\ ok(resp.status)

(* ----------------------------- apiRequest ------------------------------ *)
\* what a lookup did to the map: nothing, removed the entry of its own URL
\* that was older than 60 seconds, or anything else
lookupEffect(before, after, url, now) ==
    IF after = before THEN "none"
    ELSE IF url \in DOMAIN before
            /\ now - before[url].timestamp > 60 * 1000
            /\ after = [k \in DOMAIN before \ {url} |-> before[k]]
         THEN "expired"
         ELSE "other"

\* what a response did to the entry of its URL
storeEffect(before, after, url) ==
    IF url \notin DOMAIN after THEN "no"
    ELSE IF url \notin DOMAIN before THEN "new"
    ELSE IF after[url] = before[url] THEN "no"
    ELSE IF after[url].data = before[url].data THEN "restamped"
    ELSE "replaced"

\* apiRequest up to `await fetch(fullUrl, config)`: the call record and the
\* cache after the lookup
issue(cache, c) ==
    LET url == fullUrl(c.endpoint)
        lookup == IF isGet(c.method)
                  THEN getCachedResponse(cache, url, DateNow)
                  ELSE [found |-> FALSE, cached |-> NullEntry, cache |-> cache]
    IN [call |-> [IdleReq EXCEPT !.pc = "sent",
                                 !.method = c.method,
                                 !.endpoint = c.endpoint,
                                 !.auth = authHeader(token),
                                 !.inm = conditionalHeader(c.method, lookup),
                                 !.lookup = lookupEffect(cache, lookup.cache, url, DateNow),
                                 !.floor = acked],
        cache |-> lookup.cache]

handleNotModified_raw(cache, url, now) ==
    LET lookup == getCachedResponse(cache, url, now)
    IN [hit |-> lookup.found,
        ret |-> [kind |-> "value", ok |-> FALSE, status |-> 304,
                 result |-> lookup.cached.data],
        cache |-> lookup.cache]

handleNotModified_refresh(cache, url, now) ==
    LET lookup == getCachedResponse(cache, url, now)
    IN [hit |-> lookup.found,
        ret |-> [kind |-> "value", ok |-> TRUE, status |-> 200,
                 result |-> lookup.cached.data],
        cache |-> IF lookup.found
                  THEN [lookup.cache EXCEPT ![url].timestamp = now]
                  ELSE lookup.cache]

\* if (response.status === 304): the lookup, and the value returned on a hit
handleNotModified(cache, url, now) ==
    LET lookup == getCachedResponse(cache, url, now)
    IN [hit |-> lookup.found,
        ret |-> [kind |-> "value", ok |-> TRUE, status |-> 200,
                 result |-> lookup.cached.data],
        cache |-> lookup.cache]

cacheResponse_onlyNew(cache, q, now) ==
    IF ok(q.resp.status) /\ isGet(q.method) /\ q.resp.etag # NoETag
       /\ fullUrl(q.endpoint) \notin DOMAIN cache
    THEN setCachedResponse(cache, fullUrl(q.endpoint), q.resp.body, q.resp.etag, now)
    ELSE cache

\* let maxAge = 60; overwritten by the max-age of Cache-Control, if any;
\* the value is logged and not passed to setCachedResponse
parsedMaxAge(resp) ==
    IF resp.maxAge # NoMaxAge THEN resp.maxAge ELSE DefaultMaxAge

cacheResponse_anyETag(cache, q, now) ==
    IF ok(q.resp.status) /\ isGet(q.method)
    THEN setCachedResponse(cache, fullUrl(q.endpoint), q.resp.body, q.resp.etag, now)
    ELSE cache

\* Cache successful GET responses
cacheResponse(cache, q, now) ==
    IF ok(q.resp.status) /\ isGet(q.method) /\ q.resp.etag # NoETag
    THEN setCachedResponse(cache, fullUrl(q.endpoint), q.resp.body, q.resp.etag, now)
    ELSE cache

purgeAfterMutation_onlyOk(cache, q) ==
    IF isMutation(q.method) /\ ok(q.resp.status)
    THEN invalidate(cache, q.endpoint) ELSE cache

\* Clear relevant cache after mutations (POST, PUT, DELETE)
purgeAfterMutation(cache, q) ==
    IF isMutation(q.method) THEN invalidate(cache, q.endpoint) ELSE cache

\* return { response, result }
valueRet(resp) ==
    [kind |-> "value", ok |-> ok(resp.status), status |-> resp.status,
     result |-> resp.body]

\* apiRequest from the point where `await fetch` resolves to its return:
\* the value returned, the return statement taken, the alert shown and the
\* cache afterwards
resume(cache, q, now) ==
    LET h == handleNotModified(cache, fullUrl(q.endpoint), now) IN
    IF q.resp.status = 304 /\ h.hit
    THEN [ret |-> h.ret, via |-> "not modified", alert |-> "none", cache |-> h.cache]
    ELSE IF ~q.resp.body.present
    THEN \* response.json() throws on an empty body: the catch block
         [ret |-> NullRet, via |-> "json rejected", alert |-> "connection",
          cache |-> IF q.resp.status = 304 THEN h.cache ELSE cache]
    ELSE IF q.resp.status = 401
    THEN [ret |-> NullRet, via |-> "unauthorized", alert |-> "session",
          cache |-> clearCacheAll(cache)]
    ELSE [ret |-> valueRet(q.resp), via |-> "end", alert |-> "none",
          cache |-> purgeAfterMutation(cacheResponse(cache, q, now), q)]

Max(a, b) == IF a >= b THEN a ELSE b

\* the views behind the navigation buttons
MainViews == {"dashboard", "books", "borrow-records"}

\* the calls the controls of a view start
CallsOf(v) ==
    IF v = "books"
    THEN {c \in Calls : includes(c.endpoint, <<"/books">>)}
    ELSE IF v = "borrow-records"
         THEN {c \in Calls : includes(c.endpoint, <<"/borrow-records">>)}
         ELSE {}

BooksList == [method |-> "GET", endpoint |-> <<"/books", "?page=1&per_page=10">>]
RecordsList == [method |-> "GET", endpoint |-> <<"/borrow-records", "?page=1&per_page=10">>]
Statistics == [method |-> "GET", endpoint |-> <<"/statistics">>]

\* the reload a caller starts after a mutation that succeeded
reloadAfter(q) ==
    IF includes(q.endpoint, <<"/books">>) THEN BooksList ELSE RecordsList

\* data && data.result.success
succeeded(ret) == ret.kind = "value" /\ ret.result.success

(* ------------------------- the server at rest ------------------------- *)
\* the clients that call the server concurrently
Callers == {"x", "y"}

NoCall == [op |-> "none", book |-> 0, record |-> 0, isbn |-> "none",
           quantity |-> 0, valid |-> FALSE]
NoOutcome == [by |-> "none", op |-> "none", status |-> "none"]
NoRace == [stage |-> "none", book |-> 0, won |-> 0, lost |-> 0]
NoListing == [total |-> 0, perPage |-> 1, page |-> 1, pc |-> "idle",
              first |-> 0, count |-> 0, pages |-> 0,
              hasNext |-> FALSE, hasPrev |-> FALSE, status |-> "none"]
NoBooks == [b \in {} |-> [isbn |-> "none", quantity |-> 0, available |-> 0]]

\* the store is empty and no call is under way
StoreIdle ==
    /\ books = NoBooks
    /\ records = <<>>
    /\ nextId = 1
    /\ pending = [c \in Callers |-> NoCall]
    /\ result = NoOutcome
    /\ race = NoRace

\* no list query is under way
PageIdle == listing = NoListing

ListTypes == {"books", "borrowRecords"}
NoTimer == 0
NoStrip == [pc |-> "none", type |-> "none", page |-> 0, pages |-> 0, html |-> <<>>]
NoPagination == [page |-> 0, per_page |-> 0, total |-> 0, pages |-> 0,
                 has_next |-> FALSE, has_prev |-> FALSE,
                 next_page |-> 0, prev_page |-> 0]
NoInfo == [shown |-> FALSE, start |-> 0, end |-> 0]
NoShown == [drawn |-> FALSE, by |-> "none", pagination |-> NoPagination,
            rows |-> 0, info |-> NoInfo, html |-> <<>>]
NoTyped == [n |-> 0, type |-> "none", ago |-> 0, burst |-> 0, types |-> {}]
NoFired == [type |-> "none", after |-> 0, burst |-> 0, types |-> {}]

\* no page buttons are being rendered
StripIdle == strip = NoStrip

\* the list views have not been opened
ViewIdle ==
    /\ currentPage = [t \in ListTypes |-> 1]
    /\ searchDebounceTimer = NoTimer
    /\ timeouts = {}
    /\ loads = <<>>
    /\ shown = [t \in ListTypes |-> NoShown]
    /\ matches = [t \in ListTypes |-> 0]
    /\ typed = NoTyped
    /\ fired = NoFired
    /\ latest = "none"
    /\ clicks = 0

ListIdle == StripIdle /\ ViewIdle

(* ------------------------------ Init ----------------------------------- *)
\* the page is loaded: localStorage may hold the token of an earlier visit
\* (switchView('dashboard'); loadDashboard()), or none (switchView('login'))
Init ==
    /\ apiCache = [k \in {} |-> NullEntry]
    /\ token \in Tokens \cup {NoToken}
    /\ username = IF token # NoToken THEN "user" ELSE NoUser
    /\ view = IF token # NoToken THEN "dashboard" ELSE "login"
    /\ loginTimer = FALSE
    /\ alert = "none"
    /\ clock = 0
    /\ srvVer = 0
    /\ acked = 0
    /\ \E r \in Slots :
          req = [s \in Slots |->
                    IF s = r /\ token # NoToken
                    THEN issue(apiCache, Statistics).call ELSE IdleReq]
    /\ returned = NoReturn
    /\ ops = 0
    /\ prev = NoPrev
    /\ StoreIdle
    /\ PageIdle
    /\ ListIdle

(* ----------------------------- actions --------------------------------- *)
\* a control of the active view calls apiRequest
Call(r, c) ==
    /\ ops < MaxOps
    /\ req[r].pc = "idle"
    /\ c \in CallsOf(view)
    /\ LET i == issue(apiCache, c)
       IN /\ apiCache' = i.cache
          /\ req' = [req EXCEPT ![r] = i.call]
    /\ ops' = ops + 1
    /\ alert' = "none"
    /\ returned' = NoReturn
    /\ prev' = IF prev.stage = "stored" /\ isGet(c.method)
                  /\ prev.url = fullUrl(c.endpoint)
               THEN [prev EXCEPT !.stage = "second", !.by = r]
               ELSE NoPrev
    /\ UNCHANGED <<token, username, view, loginTimer, clock, srvVer, acked>>
    /\ UNCHANGED <<storeVars, pageVars, listVars>>

\* the server handles the request of slot r and sends its response
ServerHandle(r) ==
    /\ req[r].pc = "sent"
    /\ \E resp \in Responses(req[r]) :
          /\ req' = [req EXCEPT ![r].pc = "answered", ![r].resp = resp]
          /\ srvVer' = IF applied(req[r], resp) THEN srvVer + 1 ELSE srvVer
    /\ alert' = "none"
    /\ returned' = NoReturn
    /\ prev' = IF prev.stage = "second" /\ prev.by = r THEN prev ELSE NoPrev
    /\ UNCHANGED <<apiCache, token, username, view, loginTimer, clock, ops, acked>>
    /\ UNCHANGED <<storeVars, pageVars, listVars>>

\* fetch rejects: the catch block; every caller ignores a null
TransportFail(r) ==
    /\ req[r].pc \in {"sent", "answered"}
    /\ req' = [req EXCEPT ![r] = IdleReq]
    /\ returned' = [NoReturn EXCEPT !.by = r, !.via = "fetch rejected",
                                    !.endpoint = req[r].endpoint, !.ret = NullRet,
                                    !.lookup = req[r].lookup]
    /\ alert' = "connection"
    /\ prev' = NoPrev
    /\ UNCHANGED <<apiCache, token, username, view, loginTimer, clock, srvVer, ops, acked>>
    /\ UNCHANGED <<storeVars, pageVars, listVars>>

\* `await fetch` resolves, apiRequest runs to its return and its caller
\* resumes.  Between this await and `await response.json()` only the 304
\* branch touches the cache, the token or the views, so the resumptions are
\* one step.
FetchResolved(r) ==
    /\ req[r].pc = "answered"
    /\ LET q == req[r]
           url == fullUrl(q.endpoint)
           a == resume(apiCache, q, DateNow)
           reload == isMutation(q.method) /\ succeeded(a.ret)
           i == issue(a.cache, reloadAfter(q))
       IN /\ returned' = [by |-> r, via |-> a.via, endpoint |-> q.endpoint,
                          ret |-> a.ret, lookup |-> q.lookup,
                          stored |-> storeEffect(apiCache, a.cache, url),
                          dropped |-> DOMAIN apiCache \ DOMAIN a.cache]
          /\ acked' = IF a.via = "end" /\ applied(q, q.resp)
                         /\ includes(q.endpoint, <<"/books">>)
                      THEN Max(acked, q.resp.body.data) ELSE acked
          /\ token' = IF a.via = "unauthorized" THEN NoToken ELSE token
          /\ username' = IF a.via = "unauthorized" THEN NoUser ELSE username
          /\ view' = IF a.via = "unauthorized" THEN "login" ELSE view
          /\ IF reload
             THEN \* showAlert(data.result.message, 'success'); the list reloads
                  /\ alert' = "success"
                  /\ apiCache' = i.cache
                  /\ req' = [req EXCEPT ![r] = [i.call EXCEPT !.floor = acked']]
             ELSE /\ alert' = IF isMutation(q.method) /\ a.ret.kind = "value"
                              THEN "error" ELSE a.alert
                  /\ apiCache' = a.cache
                  /\ req' = [req EXCEPT ![r] = IdleReq]
          /\ prev' = IF a.via = "end" /\ q.resp.status = 200
                        /\ isGet(q.method) /\ q.resp.etag # NoETag
                     THEN [url |-> url, result |-> a.ret.result,
                           stage |-> "stored", by |-> r]
                     ELSE IF prev.stage = "second" /\ prev.by = r
                             /\ q.resp.status = 304
                          THEN [prev EXCEPT !.stage = "both"]
                          ELSE NoPrev
    /\ UNCHANGED <<loginTimer, clock, srvVer, ops>>
    /\ UNCHANGED <<storeVars, pageVars, listVars>>

\* the login form is submitted and the server accepts the credentials
Login(t) ==
    /\ ops < MaxOps
    /\ view = "login"
    /\ token' = t
    /\ username' = "user"
    /\ alert' = "success"
    /\ loginTimer' = TRUE
    /\ ops' = ops + 1
    /\ returned' = NoReturn
    /\ prev' = NoPrev
    /\ UNCHANGED <<apiCache, view, clock, srvVer, req, acked>>
    /\ UNCHANGED <<storeVars, pageVars, listVars>>

\* 1.5 seconds after a login: switchView('dashboard'); loadDashboard()
TimerFire(r) ==
    /\ loginTimer
    /\ req[r].pc = "idle"
    /\ loginTimer' = FALSE
    /\ view' = "dashboard"
    /\ LET i == issue(apiCache, Statistics)
       IN /\ apiCache' = i.cache
          /\ req' = [req EXCEPT ![r] = i.call]
    /\ alert' = "none"
    /\ returned' = NoReturn
    /\ prev' = NoPrev
    /\ UNCHANGED <<token, username, clock, srvVer, ops, acked>>
    /\ UNCHANGED <<storeVars, pageVars, listVars>>

\* the logout button
Logout ==
    /\ ops < MaxOps
    /\ view # "login"
    /\ token' = NoToken
    /\ username' = NoUser
    /\ apiCache' = clearCacheAll(apiCache)
    /\ alert' = "success"
    /\ view' = "login"
    /\ ops' = ops + 1
    /\ returned' = NoReturn
    /\ prev' = NoPrev
    /\ UNCHANGED <<loginTimer, clock, srvVer, req, acked>>
    /\ UNCHANGED <<storeVars, pageVars, listVars>>

\* a navigation button: switchView(v), which loads the list of a list view
Navigate(v, r) ==
    /\ ops < MaxOps
    /\ view # "login"
    /\ v \in MainViews
    /\ view' = v
    /\ IF v = "dashboard"
       THEN UNCHANGED <<apiCache, req>>
       ELSE /\ req[r].pc = "idle"
            /\ LET i == issue(apiCache, IF v = "books" THEN BooksList ELSE RecordsList)
               IN /\ apiCache' = i.cache
                  /\ req' = [req EXCEPT ![r] = i.call]
    /\ ops' = ops + 1
    /\ alert' = "none"
    /\ returned' = NoReturn
    /\ prev' = NoPrev
    /\ UNCHANGED <<token, username, loginTimer, clock, srvVer, acked>>
    /\ UNCHANGED <<storeVars, pageVars, listVars>>

\* time passes
Tick ==
    /\ clock < MaxClock
    /\ clock' = clock + 1
    /\ alert' = "none"
    /\ returned' = NoReturn
    /\ prev' = NoPrev
    /\ UNCHANGED <<apiCache, token, username, view, loginTimer, srvVer, req, ops, acked>>
    /\ UNCHANGED <<storeVars, pageVars, listVars>>

Next ==
    \/ \E r \in Slots, c \in Calls : Call(r, c)
    \/ \E r \in Slots : ServerHandle(r)
    \/ \E r \in Slots : TransportFail(r)
    \/ \E r \in Slots : FetchResolved(r)
    \/ \E t \in Tokens : Login(t)
    \/ \E r \in Slots : TimerFire(r)
    \/ Logout
    \/ \E v \in MainViews, r \in Slots : Navigate(v, r)
    \/ Tick

Spec == Init /\ [][Next]_vars

(* ------------------------ inventory rules engine ----------------------- *)
\* at most MaxBooks books are ever created
MaxBooks == 2
\* quantities a caller asks for go up to MaxQuantity
MaxQuantity == 2
\* at most MaxRecords borrow records are ever created
MaxRecords == 2
\* the ISBNs callers send: two of the required form and one that is not
WellFormedIsbns == {"9780000000001", "9780000000002"}
Isbns == WellFormedIsbns \cup {"12AB"}

\* the store as one value
Store == [books |-> books, records |-> records, nextId |-> nextId]

\* count of BorrowRecord with status = borrowed for book b
borrowedCount(recs, b) ==
    Cardinality({i \in 1..Len(recs) :
                    recs[i].book = b /\ recs[i].status = "borrowed"})

\* a record that has no return timestamp
NoTime == 0

\* the time the server stamps on a record it returns: later than every
\* stamp in the store
serverNow(recs) ==
    1 + Cardinality({i \in 1..Len(recs) : recs[i].status = "returned"})

\* an operation that fails leaves the store as it is
failed(st, error) ==
    [books |-> st.books, records |-> st.records, nextId |-> st.nextId,
     status |-> error]

createBook(st, isbn, quantity) ==
    IF \E b \in DOMAIN st.books : st.books[b].isbn = isbn
    THEN failed(st, "DuplicateISBN")
    ELSE IF isbn \notin WellFormedIsbns \/ quantity < 0
    THEN failed(st, "ValidationError")
    ELSE [books |-> [b \in DOMAIN st.books \cup {st.nextId} |->
                        IF b = st.nextId
                        THEN [isbn |-> isbn, quantity |-> quantity,
                              available |-> quantity]
                        ELSE st.books[b]],
          records |-> st.records,
          nextId |-> st.nextId + 1,
          status |-> "ok"]

updateBook_unvalidated(st, b, newQuantity) ==
    IF b \notin DOMAIN st.books
    THEN failed(st, "NotFound")
    ELSE [books |-> [st.books EXCEPT
                        ![b].quantity = newQuantity,
                        ![b].available = newQuantity - borrowedCount(st.records, b)],
          records |-> st.records,
          nextId |-> st.nextId,
          status |-> "ok"]

updateBook(st, b, newQuantity) ==
    IF b \notin DOMAIN st.books
    THEN failed(st, "NotFound")
    ELSE IF newQuantity < st.books[b].quantity - st.books[b].available
    THEN failed(st, "ValidationError")
    ELSE [books |-> [st.books EXCEPT
                        ![b].quantity = newQuantity,
                        ![b].available = newQuantity - borrowedCount(st.records, b)],
          records |-> st.records,
          nextId |-> st.nextId,
          status |-> "ok"]

deleteBook_unguarded(st, b) ==
    IF b \notin DOMAIN st.books
    THEN failed(st, "NotFound")
    ELSE [books |-> [k \in DOMAIN st.books \ {b} |-> st.books[k]],
          records |-> st.records,
          nextId |-> st.nextId,
          status |-> "ok"]

deleteBook(st, b) ==
    IF b \notin DOMAIN st.books
    THEN failed(st, "NotFound")
    ELSE IF borrowedCount(st.records, b) > 0
    THEN failed(st, "Conflict")
    ELSE [books |-> [k \in DOMAIN st.books \ {b} |-> st.books[k]],
          records |-> st.records,
          nextId |-> st.nextId,
          status |-> "ok"]

borrow_unchecked(st, b, valid) ==
    IF ~valid
    THEN failed(st, "ValidationError")
    ELSE IF b \notin DOMAIN st.books
    THEN failed(st, "NotFound")
    ELSE [books |-> [st.books EXCEPT ![b].available = @ - 1],
          records |-> Append(st.records,
                             [book |-> b, status |-> "borrowed",
                              returnedAt |-> NoTime]),
          nextId |-> st.nextId,
          status |-> "ok"]

borrow_offByOne(st, b, valid) ==
    IF ~valid
    THEN failed(st, "ValidationError")
    ELSE IF b \notin DOMAIN st.books
    THEN failed(st, "NotFound")
    ELSE IF st.books[b].available < 0
    THEN failed(st, "OutOfStock")
    ELSE [books |-> [st.books EXCEPT ![b].available = @ - 1],
          records |-> Append(st.records,
                             [book |-> b, status |-> "borrowed",
                              returnedAt |-> NoTime]),
          nextId |-> st.nextId,
          status |-> "ok"]

borrow(st, b, valid) ==
    IF ~valid
    THEN failed(st, "ValidationError")
    ELSE IF b \notin DOMAIN st.books
    THEN failed(st, "NotFound")
    ELSE IF st.books[b].available <= 0
    THEN failed(st, "OutOfStock")
    ELSE [books |-> [st.books EXCEPT ![b].available = @ - 1],
          records |-> Append(st.records,
                             [book |-> b, status |-> "borrowed",
                              returnedAt |-> NoTime]),
          nextId |-> st.nextId,
          status |-> "ok"]

returnBook_keepsAvailable(st, id) ==
    IF id \notin 1..Len(st.records)
    THEN failed(st, "NotFound")
    ELSE IF st.records[id].status = "returned"
    THEN failed(st, "AlreadyReturned")
    ELSE [books |-> st.books,
          records |-> [st.records EXCEPT
                          ![id].status = "returned",
                          ![id].returnedAt = serverNow(st.records)],
          nextId |-> st.nextId,
          status |-> "ok"]

returnBook_twice(st, id) ==
    IF id \notin 1..Len(st.records)
    THEN failed(st, "NotFound")
    ELSE [books |-> [st.books EXCEPT ![st.records[id].book].available = @ + 1],
          records |-> [st.records EXCEPT
                          ![id].status = "returned",
                          ![id].returnedAt = serverNow(st.records)],
          nextId |-> st.nextId,
          status |-> "ok"]

returnBook(st, id) ==
    IF id \notin 1..Len(st.records)
    THEN failed(st, "NotFound")
    ELSE IF st.records[id].status = "returned"
    THEN failed(st, "AlreadyReturned")
    ELSE [books |-> [st.books EXCEPT ![st.records[id].book].available = @ + 1],
          records |-> [st.records EXCEPT
                          ![id].status = "returned",
                          ![id].returnedAt = serverNow(st.records)],
          nextId |-> st.nextId,
          status |-> "ok"]

\* the server applies a call to the store as one atomic unit
handle(st, q) ==
    IF q.op = "createBook" THEN createBook(st, q.isbn, q.quantity)
    ELSE IF q.op = "updateBook" THEN updateBook(st, q.book, q.quantity)
    ELSE IF q.op = "deleteBook" THEN deleteBook(st, q.book)
    ELSE IF q.op = "borrow" THEN borrow(st, q.book, q.valid)
    ELSE returnBook(st, q.record)

\* the calls a caller can make
StoreCalls ==
    { [NoCall EXCEPT !.op = "createBook", !.isbn = i, !.quantity = n] :
        i \in Isbns, n \in -1..MaxQuantity }
    \cup { [NoCall EXCEPT !.op = "updateBook", !.book = b, !.quantity = n] :
        b \in 1..MaxBooks, n \in 0..MaxQuantity }
    \cup { [NoCall EXCEPT !.op = "deleteBook", !.book = b] : b \in 1..MaxBooks }
    \cup { [NoCall EXCEPT !.op = "borrow", !.book = b, !.valid = v] :
        b \in 1..MaxBooks, v \in BOOLEAN }
    \cup { [NoCall EXCEPT !.op = "returnBook", !.record = i] : i \in 1..MaxRecords }

\* calls of kind op that are under way
underWay(op) == Cardinality({c \in Callers : pending[c].op = op})

\* q is a borrow for the last copy of its book
lastCopy(q) ==
    /\ q.op = "borrow" /\ q.valid
    /\ q.book \in DOMAIN books
    /\ books[q.book].available = 1

\* caller c sends call q to the server
Submit(c, q) ==
    /\ pending[c] = NoCall
    /\ q \in StoreCalls
    /\ q.op = "createBook" => nextId + underWay("createBook") <= MaxBooks
    /\ q.op = "borrow" => Len(records) + underWay("borrow") < MaxRecords
    /\ pending' = [pending EXCEPT ![c] = q]
    /\ result' = NoOutcome
    /\ race' = IF lastCopy(q) /\ \A d \in Callers \ {c} : pending[d] = q
               THEN [NoRace EXCEPT !.stage = "both", !.book = q.book]
               ELSE NoRace
    /\ UNCHANGED <<books, records, nextId>>
    /\ UNCHANGED <<clientVars, pageVars, listVars>>

\* the server handles the call of caller c
Handle(c) ==
    /\ pending[c] # NoCall
    /\ LET o == handle(Store, pending[c])
       IN /\ books' = o.books
          /\ records' = o.records
          /\ nextId' = o.nextId
          /\ result' = [by |-> c, op |-> pending[c].op, status |-> o.status]
          /\ race' = IF race.stage \in {"both", "one"}
                     THEN [race EXCEPT
                             !.stage = IF race.stage = "both" THEN "one" ELSE "done",
                             !.won = @ + (IF o.status = "ok" THEN 1 ELSE 0),
                             !.lost = @ + (IF o.status = "OutOfStock" THEN 1 ELSE 0)]
                     ELSE NoRace
    /\ pending' = [pending EXCEPT ![c] = NoCall]
    /\ UNCHANGED <<clientVars, pageVars, listVars>>

\* the client side at rest
ClientIdle ==
    /\ apiCache = [k \in {} |-> NullEntry]
    /\ token = NoToken /\ username = NoUser /\ view = "login"
    /\ loginTimer = FALSE /\ alert = "none"
    /\ clock = 0 /\ srvVer = 0 /\ acked = 0 /\ ops = 0
    /\ req = [s \in Slots |-> IdleReq]
    /\ returned = NoReturn
    /\ prev = NoPrev

InvInit == ClientIdle /\ StoreIdle /\ PageIdle /\ ListIdle

InvNext ==
    \/ \E c \in Callers, q \in StoreCalls : Submit(c, q)
    \/ \E c \in Callers : Handle(c)

InvSpec == InvInit /\ [][InvNext]_vars

(* ---------------------------- query builder --------------------------- *)
\* a list query finds up to MaxTotal documents
MaxTotal == 25
\* page sizes go up to MaxPerPage
MaxPerPage == 10
\* page numbers go up to MaxPage
MaxPage == 4

Min(a, b) == IF a <= b THEN a ELSE b

paginate_floor(total, perPage, page) ==
    LET pages == total \div perPage
        skipped == (page - 1) * perPage
    IN [first |-> skipped + 1,
        count |-> Max(0, Min(perPage, total - skipped)),
        pages |-> pages,
        hasNext |-> page < pages,
        hasPrev |-> page > 1,
        status |-> "ok"]

\* the pagination result of a list query that matches `total` documents:
\* the items are the documents first .. first + count - 1 of the sorted match
paginate(total, perPage, page) ==
    LET pages == (total + perPage - 1) \div perPage
        skipped == (page - 1) * perPage
    IN [first |-> skipped + 1,
        count |-> Max(0, Min(perPage, total - skipped)),
        pages |-> pages,
        hasNext |-> page < pages,
        hasPrev |-> page > 1,
        status |-> "ok"]

\* showResultInfo: the range "Showing start-end of total" the client shows
showResultInfo(pagination) ==
    IF pagination.total = 0
    THEN [shown |-> FALSE, start |-> 0, end |-> 0]
    ELSE [shown |-> TRUE,
          start |-> (pagination.page - 1) * pagination.per_page + 1,
          end |-> Min(pagination.page * pagination.per_page, pagination.total)]

\* the server answers the list query
ListQuery ==
    /\ listing.pc = "asked"
    /\ LET p == paginate(listing.total, listing.perPage, listing.page)
       IN listing' = [listing EXCEPT
                         !.pc = "answered",
                         !.first = p.first, !.count = p.count,
                         !.pages = p.pages,
                         !.hasNext = p.hasNext, !.hasPrev = p.hasPrev,
                         !.status = p.status]
    /\ UNCHANGED <<clientVars, storeVars, listVars>>

\* a list query with any page and page size over any number of matches
PageInit ==
    /\ ClientIdle
    /\ StoreIdle
    /\ ListIdle
    /\ \E total \in 0..MaxTotal, perPage \in 1..MaxPerPage, page \in 1..MaxPage :
          listing = [NoListing EXCEPT !.pc = "asked", !.total = total,
                                      !.perPage = perPage, !.page = page]

PageNext == ListQuery

PageSpec == PageInit /\ [][PageNext]_vars

(* ------------------------- the page buttons ---------------------------- *)
\* page counts go up to MaxPages
MaxPages == 10

\* const maxButtons = 5
maxButtons == 5

\* load${type === 'books' ? 'Books' : 'BorrowRecords'}
loadFunction(type) == IF type = "books" THEN "loadBooks" ELSE "loadBorrowRecords"

\* <span class="page-ellipsis">...</span>
Ellipsis == [tag |-> "span", label |-> "...", onclick |-> "none", page |-> 0,
             active |-> FALSE, disabled |-> FALSE]

\* a <button class="btn-page"> of the pager
Button(label, type, pageNum, isActive, isDisabled) ==
    [tag |-> "button", label |-> label,
     onclick |-> IF isDisabled THEN "none" ELSE loadFunction(type),
     page |-> pageNum, active |-> isActive, disabled |-> isDisabled]

\* renderPageButton: the button of one page number
renderPageButton(type, pageNum, current) ==
    LET isActive == pageNum = current
    IN [tag |-> "button", label |-> "number", onclick |-> loadFunction(type),
        page |-> pageNum, active |-> isActive, disabled |-> isActive]

\* for (let i = from; i <= to; i++) html += renderPageButton(type, i, currentPage)
pageButtons(type, from, to, current) ==
    [i \in 1..Max(0, to - from + 1) |-> renderPageButton(type, from + i - 1, current)]

leftEllipsis_eager(current) == current > 2

\* const leftEllipsis = currentPage > 3
leftEllipsis(current) == current > 3

\* const rightEllipsis = currentPage < totalPages - 2
rightEllipsis(current, totalPages) == current < totalPages - 2

\* renderPageNumbers: the page number buttons, with ellipses for large counts
renderPageNumbers(type, pagination) ==
    LET current == pagination.page
        totalPages == pagination.pages
    IN IF totalPages <= maxButtons + 2
       THEN pageButtons(type, 1, totalPages, current)
       ELSE LET startPage == IF current >= totalPages - 2
                             THEN Max(2, totalPages - 3)
                             ELSE Max(2, current - 1)
                endPage == IF current <= 3
                           THEN Min(totalPages - 1, 4)
                           ELSE Min(totalPages - 1, current + 1)
            IN <<renderPageButton(type, 1, current)>>
               \o (IF leftEllipsis(current) THEN <<Ellipsis>> ELSE <<>>)
               \o pageButtons(type, startPage, endPage, current)
               \o (IF rightEllipsis(current, totalPages) THEN <<Ellipsis>> ELSE <<>>)
               \o <<renderPageButton(type, totalPages, current)>>

\* renderPagination: first, previous, the page numbers, next, last
renderPagination(type, pagination) ==
    IF pagination.pages <= 1
    THEN <<>>
    ELSE (IF pagination.page > 1
          THEN <<Button("first", type, 1, FALSE, FALSE)>> ELSE <<>>)
         \o (IF pagination.has_prev
             THEN <<Button("previous", type, pagination.prev_page, FALSE, FALSE)>>
             ELSE <<Button("previous", type, 0, FALSE, TRUE)>>)
         \o renderPageNumbers(type, pagination)
         \o (IF pagination.has_next
             THEN <<Button("next", type, pagination.next_page, FALSE, FALSE)>>
             ELSE <<Button("next", type, 0, FALSE, TRUE)>>)
         \o (IF pagination.page < pagination.pages
             THEN <<Button("last", type, pagination.pages, FALSE, FALSE)>> ELSE <<>>)

\* the page numbers are rendered for the pagination result
RenderNumbers ==
    /\ strip.pc = "asked"
    /\ strip' = [strip EXCEPT
                    !.pc = "rendered",
                    !.html = renderPageNumbers(strip.type,
                                 [page |-> strip.page, pages |-> strip.pages])]
    /\ UNCHANGED <<clientVars, storeVars, pageVars, viewVars>>

\* a pagination result of either list with any page count and any of its pages
StripInit ==
    /\ ClientIdle
    /\ StoreIdle
    /\ PageIdle
    /\ ViewIdle
    /\ \E type \in ListTypes, pages \in 1..MaxPages :
          \E page \in 1..pages :
             strip = [NoStrip EXCEPT !.pc = "asked", !.type = type,
                                     !.page = page, !.pages = pages]

StripNext == RenderNumbers

StripSpec == StripInit /\ [][StripNext]_vars

(* --------------------------- the list views ---------------------------- *)
\* the books query matches up to MaxShelf documents
MaxShelf == 21
\* the borrow records query matches up to MaxLoans documents
MaxLoans == 1
\* the user clicks up to MaxClicks page and delete buttons
MaxClicks == 2
\* the user types up to MaxSearches times into a search field
MaxSearches == 2
\* a click is possible while fewer than MaxLoads requests are in flight
MaxLoads == 2
\* time passes in steps of at most StepMs milliseconds
StepMs == 250

\* params.append('per_page', 10)
PER_PAGE == 10
\* setTimeout(..., 500)
DebounceMs == 500

\* the books query matches no document, one, a full page, one more than a
\* full page, or one more than two full pages
ShelfSizes == {n \in {0, 1, PER_PAGE, PER_PAGE + 1, 2 * PER_PAGE + 1} : n <= MaxShelf}

\* clearTimeout(id): the timeout of that id, if still pending, never runs
clearTimeout(pendingTimeouts, id) == {t \in pendingTimeouts : t.id # id}

\* setTimeout(callback, delay): the callback of the reload of `type`
setTimeout(pendingTimeouts, id, type, delay) ==
    pendingTimeouts \cup {[id |-> id, type |-> type, left |-> delay]}

debounceSearch_noClear(pendingTimeouts, timer, type, id) ==
    [timeouts |-> setTimeout(pendingTimeouts, id, type, DebounceMs),
     timer |-> id]

\* debounceSearch(type): the pending reload is cancelled and a new one set
debounceSearch(pendingTimeouts, timer, type, id) ==
    [timeouts |-> setTimeout(clearTimeout(pendingTimeouts, timer), id, type,
                             DebounceMs),
     timer |-> id]

NoAnswer == [success |-> FALSE, items |-> 0, pagination |-> NoPagination]

\* apiRequest(`/books?${queryParams}`) of loadBooks or loadBorrowRecords,
\* called by switchView, a page button, the search timer or deleteBook
ListCall(type, page, by) ==
    [kind |-> type, page |-> page, by |-> by, pc |-> "sent", resp |-> NoAnswer,
     newest |-> TRUE]

\* apiRequest(`/books/${bookId}`, { method: 'DELETE' })
DeleteCall ==
    [kind |-> "delete", page |-> 0, by |-> "button", pc |-> "sent",
     resp |-> NoAnswer, newest |-> FALSE]

\* the requests in flight without the i-th
Without(inflight, i) ==
    [j \in 1..(Len(inflight) - 1) |-> IF j < i THEN inflight[j] ELSE inflight[j + 1]]

\* loadBooks(page) / loadBorrowRecords(page) up to the await:
\* currentPage[type] = page and the list request is sent
loadList(pageOf, inflight, type, page, by) ==
    [currentPage |-> [pageOf EXCEPT ![type] = page],
     loads |-> Append([j \in 1..Len(inflight) |->
                          IF inflight[j].kind = type
                          THEN [inflight[j] EXCEPT !.newest = FALSE]
                          ELSE inflight[j]],
                      ListCall(type, page, by))]

\* the server's answer to a list query for `page` over `total` matches
listResponse(total, page) ==
    LET p == paginate(total, PER_PAGE, page)
    IN [success |-> TRUE, items |-> p.count,
        pagination |-> [page |-> page, per_page |-> PER_PAGE, total |-> total,
                        pages |-> p.pages,
                        has_next |-> p.hasNext, has_prev |-> p.hasPrev,
                        next_page |-> IF p.hasNext THEN page + 1 ELSE 0,
                        prev_page |-> IF p.hasPrev THEN page - 1 ELSE 0]]

\* loadBooks after the await, on success: the range, the rows and the pager
renderList(type, resp, by) ==
    [drawn |-> TRUE, by |-> by, pagination |-> resp.pagination,
     rows |-> resp.items,
     info |-> showResultInfo(resp.pagination),
     html |-> renderPagination(type, resp.pagination)]

\* the pages the enabled buttons of a pager load
Targets(html) ==
    {html[i].page : i \in {j \in 1..Len(html) :
                              html[j].tag = "button" /\ ~html[j].disabled}}

\* a click on an enabled button of the pager of a list
GoToPage(type, n) ==
    /\ clicks < MaxClicks
    /\ Len(loads) < MaxLoads
    /\ n \in Targets(shown[type].html)
    /\ LET l == loadList(currentPage, loads, type, n, "button")
       IN /\ currentPage' = l.currentPage
          /\ loads' = l.loads
    /\ latest' = IF type = "books" THEN "pending" ELSE latest
    /\ clicks' = clicks + 1
    /\ fired' = NoFired
    /\ UNCHANGED <<searchDebounceTimer, timeouts, shown, matches, typed>>
    /\ UNCHANGED <<clientVars, storeVars, pageVars, stripVars>>

\* a key typed into a search field of a list: debounceSearch(type)
Search(type) ==
    /\ typed.n < MaxSearches
    /\ LET d == debounceSearch(timeouts, searchDebounceTimer, type, typed.n + 1)
       IN /\ timeouts' = d.timeouts
          /\ searchDebounceTimer' = d.timer
    /\ typed' = [n |-> typed.n + 1, type |-> type, ago |-> 0,
                 burst |-> typed.burst + 1, types |-> typed.types \cup {type}]
    /\ fired' = NoFired
    /\ UNCHANGED <<currentPage, loads, shown, matches, latest, clicks>>
    /\ UNCHANGED <<clientVars, storeVars, pageVars, stripVars>>

\* time passes while a timeout is pending, up to the moment the next is due
Elapse ==
    /\ timeouts # {}
    /\ \A t \in timeouts : t.left > 0
    /\ LET next == CHOOSE t \in timeouts : \A u \in timeouts : t.left <= u.left
           d == Min(StepMs, next.left)
       IN /\ timeouts' = {[t EXCEPT !.left = @ - d] : t \in timeouts}
          /\ typed' = [typed EXCEPT !.ago = Min(@ + d, DebounceMs + StepMs)]
    /\ fired' = NoFired
    /\ UNCHANGED <<currentPage, searchDebounceTimer, loads, shown, matches,
                   latest, clicks>>
    /\ UNCHANGED <<clientVars, storeVars, pageVars, stripVars>>

\* the callback of a due timeout runs: loadBooks(1) or loadBorrowRecords(1)
TimerFires ==
    /\ \E t \in timeouts :
          /\ t.left = 0
          /\ timeouts' = timeouts \ {t}
          /\ LET l == loadList(currentPage, loads, t.type, 1, "timer")
             IN /\ currentPage' = l.currentPage
                /\ loads' = l.loads
          /\ latest' = IF t.type = "books" THEN "pending" ELSE latest
          /\ fired' = [type |-> t.type, after |-> typed.ago,
                       burst |-> typed.burst, types |-> typed.types]
    /\ typed' = [typed EXCEPT !.burst = 0, !.types = {}]
    /\ UNCHANGED <<searchDebounceTimer, shown, matches, clicks>>
    /\ UNCHANGED <<clientVars, storeVars, pageVars, stripVars>>

\* a click on the delete button of a row, confirmed: deleteBook(bookId)
DeleteBook ==
    /\ clicks < MaxClicks
    /\ Len(loads) < MaxLoads
    /\ shown["books"].rows > 0
    /\ loads' = Append(loads, DeleteCall)
    /\ clicks' = clicks + 1
    /\ fired' = NoFired
    /\ UNCHANGED <<currentPage, searchDebounceTimer, timeouts, shown, matches,
                   typed, latest>>
    /\ UNCHANGED <<clientVars, storeVars, pageVars, stripVars>>

\* the server handles the i-th request in flight: a list query is answered
\* from the documents matching now, a delete removes a book that exists
ServerAnswers(i) ==
    /\ i \in 1..Len(loads)
    /\ loads[i].pc = "sent"
    /\ LET q == loads[i]
       IN IF q.kind = "delete"
          THEN LET okay == matches["books"] > 0
               IN /\ matches' = IF okay
                                THEN [matches EXCEPT !["books"] = @ - 1]
                                ELSE matches
                  /\ loads' = [loads EXCEPT ![i].pc = "answered",
                                            ![i].resp.success = okay]
          ELSE /\ matches' = matches
               /\ loads' = [loads EXCEPT
                               ![i].pc = "answered",
                               ![i].resp = listResponse(matches[q.kind], q.page)]
    /\ fired' = NoFired
    /\ UNCHANGED <<currentPage, searchDebounceTimer, timeouts, shown, typed,
                   latest, clicks>>
    /\ UNCHANGED <<clientVars, storeVars, pageVars, stripVars>>

\* apiRequest returns the i-th request's response to its caller: loadBooks
\* and loadBorrowRecords render a successful result, deleteBook reloads the
\* current page after a successful delete; an error renders nothing
Arrives(i) ==
    /\ i \in 1..Len(loads)
    /\ loads[i].pc = "answered"
    /\ LET q == loads[i]
           rest == Without(loads, i)
       IN IF q.kind = "delete"
          THEN /\ shown' = shown
               /\ IF q.resp.success
                  THEN LET l == loadList(currentPage, rest, "books",
                                         currentPage["books"], "deleteBook")
                       IN /\ currentPage' = l.currentPage
                          /\ loads' = l.loads
                          /\ latest' = "pending"
                  ELSE /\ loads' = rest
                       /\ UNCHANGED <<currentPage, latest>>
          ELSE /\ loads' = rest
               /\ currentPage' = currentPage
               /\ shown' = IF q.resp.success
                           THEN [shown EXCEPT ![q.kind] =
                                        renderList(q.kind, q.resp, q.by)]
                           ELSE shown
               /\ latest' = IF q.kind = "books" /\ q.newest
                            THEN (IF q.resp.success THEN "shown" ELSE "failed")
                            ELSE latest
    /\ fired' = NoFired
    /\ UNCHANGED <<searchDebounceTimer, timeouts, matches, typed, clicks>>
    /\ UNCHANGED <<clientVars, storeVars, pageVars, stripVars>>

\* the i-th request fails: fetch rejects and apiRequest returns null, or
\* the server refuses the request with an error result; loadBooks and
\* loadBorrowRecords render nothing, deleteBook does not reload
Rejects(i) ==
    /\ i \in 1..Len(loads)
    /\ loads' = Without(loads, i)
    /\ latest' = IF loads[i].kind = "books" /\ loads[i].newest
                 THEN "failed" ELSE latest
    /\ fired' = NoFired
    /\ UNCHANGED <<currentPage, searchDebounceTimer, timeouts, shown, matches,
                   typed, clicks>>
    /\ UNCHANGED <<clientVars, storeVars, pageVars, stripVars>>

\* switchView('books') has called loadBooks(): page 1 is being loaded
ViewInit ==
    /\ ClientIdle
    /\ StoreIdle
    /\ PageIdle
    /\ StripIdle
    /\ currentPage = [t \in ListTypes |-> 1]
    /\ searchDebounceTimer = NoTimer
    /\ timeouts = {}
    /\ loads = <<ListCall("books", 1, "switchView")>>
    /\ shown = [t \in ListTypes |-> NoShown]
    /\ \E b \in ShelfSizes, l \in 0..MaxLoans :
          matches = [t \in ListTypes |-> IF t = "books" THEN b ELSE l]
    /\ typed = NoTyped
    /\ fired = NoFired
    /\ latest = "pending"
    /\ clicks = 0

ViewNext ==
    \/ \E type \in ListTypes, n \in 1..(MaxShelf + 1) : GoToPage(type, n)
    \/ \E type \in ListTypes : Search(type)
    \/ Elapse
    \/ TimerFires
    \/ DeleteBook
    \/ \E i \in 1..(MaxLoads + MaxSearches) : ServerAnswers(i)
    \/ \E i \in 1..(MaxLoads + MaxSearches) : Arrives(i)
    \/ \E i \in 1..(MaxLoads + MaxSearches) : Rejects(i)

ViewSpec == ViewInit /\ [][ViewNext]_vars

\* the browser runs a timeout's callback once its delay has passed
ViewFair ==
    /\ ViewSpec
    /\ WF_vars(Elapse)
    /\ WF_vars(TimerFires)

(* ------------------------------ claims --------------------------------- *)
\* slot r's call returns to its caller in this step
Returns(r) == req[r].pc \in {"sent", "answered"} /\ returned'.by = r

\* slot r starts a call in this step, from a control, a view switch or a timer
Starts(r) == req[r].pc = "idle" /\ req'[r].pc = "sent"

BooksUrl == fullUrl(BooksList.endpoint)
RecordsUrl == fullUrl(RecordsList.endpoint)
StatisticsUrl == fullUrl(Statistics.endpoint)

\* C1: a GET of a /books URL issued after a /books mutation has returned
\* never returns a payload the server produced before that mutation: the
\* revision it returns is at least the revision that mutation reported.
C1_NoStaleListAfterMutation ==
    [][\A r \in Slots :
          (Returns(r) /\ isGet(req[r].method)
             /\ includes(req[r].endpoint, <<"/books">>)
             /\ returned'.ret.kind = "value" /\ returned'.ret.ok)
          => returned'.ret.result.data >= req[r].floor]_vars

\* C2: a GET answered 200 with an ETag, then the same GET with nothing in
\* between (no other call, no response, no click, no tick of the clock),
\* answered 304: the second call returns ok with the payload the first
\* returned, and its response carried no body.
C2_SamePayloadOn304 ==
    prev.stage = "both"
    => /\ returned.by = prev.by
       /\ returned.ret = [kind |-> "value", ok |-> TRUE, status |-> 200,
                          result |-> prev.result]
       /\ prev.result.present

C2_Witness ==
    /\ prev.stage = "both"
    /\ returned.via = "not modified"
    /\ returned.ret.result = OkBody(srvVer)

\* C3: a 401 response, for any method and endpoint, empties the cache,
\* removes token and username and makes apiRequest return null.
C3_UnauthorizedClearsAll ==
    [][\A r \in Slots :
          (Returns(r) /\ req[r].pc = "answered" /\ req[r].resp.status = 401
             /\ returned'.via # "fetch rejected")
          => /\ DOMAIN apiCache' = {}
             /\ token' = NoToken
             /\ username' = NoUser
             /\ returned'.ret = NullRet]_vars

C3_Witness ==
    /\ returned.via = "unauthorized"
    /\ Cardinality(returned.dropped) >= 2
    /\ \E u \in returned.dropped : u # fullUrl(returned.endpoint)
    /\ DOMAIN apiCache = {}
    /\ token = NoToken

\* C4: when a POST, PUT or DELETE succeeds, then as apiRequest returns no
\* entry is left whose URL contains '/books' or '/statistics' (endpoint
\* containing '/books'), or '/borrow-records', '/books' or '/statistics'
\* (endpoint containing '/borrow-records').
C4_MutationPurges ==
    [][\A r \in Slots :
          (Returns(r) /\ isMutation(req[r].method) /\ returned'.ret.kind = "value"
             /\ returned'.ret.ok)
          => /\ includes(req[r].endpoint, <<"/books">>)
                => \A k \in DOMAIN apiCache' :
                      /\ ~includes(k, <<"/books">>)
                      /\ ~includes(k, <<"/statistics">>)
             /\ includes(req[r].endpoint, <<"/borrow-records">>)
                => \A k \in DOMAIN apiCache' :
                      /\ ~includes(k, <<"/borrow-records">>)
                      /\ ~includes(k, <<"/books">>)
                      /\ ~includes(k, <<"/statistics">>)]_vars

C4_Witness ==
    /\ returned.via = "end"
    /\ returned.ret.ok
    /\ returned.endpoint = <<"/borrow-records", "/1", "/return">>
    /\ returned.dropped = {BooksUrl, RecordsUrl, StatisticsUrl}

\* C5: a GET always goes to the network, and carries If-None-Match, equal to
\* the stored ETag, exactly when an entry for its URL exists that is not
\* older than 60 seconds when the request is issued.
C5_ConditionalExactlyWhenFresh ==
    [][\A r \in Slots :
          (req[r].pc = "idle" /\ req'[r].pc # "idle" /\ isGet(req'[r].method))
          => LET url == fullUrl(req'[r].endpoint) IN
             /\ req'[r].pc = "sent"
             /\ returned'.by # r
             /\ req'[r].inm =
                   IF url \in DOMAIN apiCache
                      /\ clock * TickMs - apiCache[url].timestamp <= 60 * 1000
                   THEN apiCache[url].etag
                   ELSE NoETag
             /\ (url \in DOMAIN apiCache
                   /\ clock * TickMs - apiCache[url].timestamp <= 60 * 1000)
                => req'[r].inm # NoETag]_vars

C5_Witness ==
    \E r \in Slots :
       /\ req[r].pc = "sent"
       /\ isGet(req[r].method)
       /\ fullUrl(req[r].endpoint) \in DOMAIN apiCache
       /\ req[r].inm = apiCache[fullUrl(req[r].endpoint)].etag
       /\ \E s \in Slots : req[s].pc = "sent" /\ isGet(req[s].method)
                              /\ req[s].inm = NoETag

\* C6: the lookup of a GET removes an entry older than 60 seconds and the
\* request goes out without If-None-Match; an entry of at most 60 seconds
\* stays as it is and its ETag is sent.
C6_ExpiryAtLookup ==
    [][\A r \in Slots :
          (Starts(r) /\ isGet(req'[r].method)
             /\ fullUrl(req'[r].endpoint) \in DOMAIN apiCache)
          => LET url == fullUrl(req'[r].endpoint) IN
             IF clock * TickMs - apiCache[url].timestamp > 60 * 1000
             THEN /\ url \notin DOMAIN apiCache'
                  /\ req'[r].inm = NoETag
             ELSE /\ url \in DOMAIN apiCache'
                  /\ apiCache'[url] = apiCache[url]
                  /\ req'[r].inm = apiCache[url].etag]_vars

C6_Witness ==
    \E r \in Slots :
       /\ req[r].pc = "sent"
       /\ isGet(req[r].method)
       /\ req[r].lookup = "expired"
       /\ req[r].inm = NoETag
       /\ fullUrl(req[r].endpoint) \notin DOMAIN apiCache

\* C7 as stated: a GET whose URL has an entry and that is answered 200 with a
\* new payload replaces the entry by the new payload, ETag and timestamp, so
\* the cache does not keep the old payload while the caller got the new one.
C7_Original ==
    [][\A r \in Slots :
          (Returns(r) /\ returned'.via = "end" /\ isGet(req[r].method)
             /\ req[r].resp.status = 200
             /\ fullUrl(req[r].endpoint) \in DOMAIN apiCache
             /\ apiCache[fullUrl(req[r].endpoint)].data # req[r].resp.body)
          => LET url == fullUrl(req[r].endpoint) IN
             /\ url \in DOMAIN apiCache'
             /\ apiCache'[url] = [data |-> req[r].resp.body,
                                  etag |-> req[r].resp.etag,
                                  timestamp |-> clock * TickMs]
             /\ apiCache'[url].data = returned'.ret.result]_vars

\* C7 amended: the same, for a 200 response that carries an ETag header.
C7_ReplacedWhenETag ==
    [][\A r \in Slots :
          (Returns(r) /\ returned'.via = "end" /\ isGet(req[r].method)
             /\ req[r].resp.status = 200
             /\ req[r].resp.etag # NoETag
             /\ fullUrl(req[r].endpoint) \in DOMAIN apiCache
             /\ apiCache[fullUrl(req[r].endpoint)].data # req[r].resp.body)
          => LET url == fullUrl(req[r].endpoint) IN
             /\ url \in DOMAIN apiCache'
             /\ apiCache'[url] = [data |-> req[r].resp.body,
                                  etag |-> req[r].resp.etag,
                                  timestamp |-> clock * TickMs]
             /\ apiCache'[url].data = returned'.ret.result]_vars

C7_Witness ==
    /\ returned.via = "end"
    /\ returned.stored = "replaced"
    /\ fullUrl(returned.endpoint) \in DOMAIN apiCache
    /\ apiCache[fullUrl(returned.endpoint)].data = returned.ret.result
    /\ apiCache[fullUrl(returned.endpoint)].etag = ETagOf(returned.ret.result.data)
    /\ apiCache[fullUrl(returned.endpoint)].timestamp = DateNow

\* C8 as stated: a 304 sets the timestamp of the entry to the time of the 304
\* and leaves its payload and ETag as they are.
C8_Original ==
    [][\A r \in Slots :
          (Returns(r) /\ returned'.via = "not modified")
          => LET url == fullUrl(req[r].endpoint) IN
             /\ url \in DOMAIN apiCache'
             /\ apiCache'[url] =
                   [apiCache[url] EXCEPT !.timestamp = clock * TickMs]]_vars

\* C8 amended: a 304 that finds the entry leaves the entry as it is: payload,
\* ETag and timestamp; its age goes on from the 200 that stored it.
C8_EntryUntouchedOn304 ==
    [][\A r \in Slots :
          (Returns(r) /\ returned'.via = "not modified")
          => LET url == fullUrl(req[r].endpoint) IN
             /\ url \in DOMAIN apiCache'
             /\ apiCache'[url] = apiCache[url]]_vars

C8_Witness ==
    /\ returned.via = "not modified"
    /\ fullUrl(returned.endpoint) \in DOMAIN apiCache
    /\ apiCache[fullUrl(returned.endpoint)].timestamp < DateNow
    /\ apiCache[fullUrl(returned.endpoint)].data = returned.ret.result

\* C9 as stated: a call whose fetch is rejected has changed nothing: not the
\* cache (neither when it was issued nor when it failed), not the token, the
\* username or the view; it shows a connection error and returns null.
C9_Original ==
    [][\A r \in Slots :
          (Returns(r) /\ returned'.via = "fetch rejected")
          => /\ req[r].lookup = "none"
             /\ apiCache' = apiCache
             /\ token' = token /\ username' = username
             /\ view' = view /\ loginTimer' = loginTimer
             /\ returned'.ret = NullRet
             /\ alert' = "connection"]_vars

\* C9 amended: the same, except that the lookup of a GET may have removed
\* the entry of its own URL because it was older than 60 seconds.
C9_FailureChangesNothingButExpiry ==
    [][\A r \in Slots :
          (Returns(r) /\ returned'.via = "fetch rejected")
          => /\ req[r].lookup \in {"none", "expired"}
             /\ req[r].lookup = "expired" => isGet(req[r].method)
             /\ apiCache' = apiCache
             /\ token' = token /\ username' = username
             /\ view' = view /\ loginTimer' = loginTimer
             /\ returned'.ret = NullRet
             /\ alert' = "connection"]_vars

C9_Witness ==
    /\ returned.via = "fetch rejected"
    /\ returned.lookup = "expired"
    /\ returned.ret = NullRet
    /\ alert = "connection"
    /\ fullUrl(returned.endpoint) \notin DOMAIN apiCache
    /\ DOMAIN apiCache # {}
    /\ token # NoToken

\* C10: a request is sent with 'Authorization: Bearer <token>' for the token
\* stored when it is issued, and without the header when none is stored.
C10_BearerOfStoredToken ==
    [][\A r \in Slots :
          (req[r].pc # "sent" /\ req'[r].pc = "sent")
          => req'[r].auth = IF token # NoToken THEN <<"Bearer", token>>
                            ELSE <<>>]_vars

C10_Witness ==
    \E r, s \in Slots :
       /\ req[r].pc = "sent" /\ req[s].pc = "sent"
       /\ token # NoToken
       /\ req[r].auth = <<"Bearer", token>>
       /\ req[s].auth # req[r].auth

\* C11: every operation that gets a response with success = false other than
\* a 401 shows the server's message in an error alert.
C11_ErrorMessageShown ==
    [][\A r \in Slots :
          (Returns(r) /\ returned'.ret.kind = "value"
             /\ ~returned'.ret.result.success)
          => alert' = "error"]_vars

\* C19: every 304 received for a GET makes apiRequest return the cached
\* payload with ok status, also when the entry was purged while the request
\* was in flight.
C19_NotModifiedAlwaysServed ==
    [][\A r \in Slots :
          (Returns(r) /\ req[r].pc = "answered" /\ isGet(req[r].method)
             /\ returned'.via # "fetch rejected"
             /\ req[r].resp.status = 304)
          => /\ returned'.ret.kind = "value"
             /\ returned'.ret.ok
             /\ returned'.ret.result.present]_vars

\* C20: an entry lives for the max-age of the Cache-Control header of the
\* response that created it, 60 seconds without one: a lookup treats it as
\* expired exactly when its age exceeds that value.
C20_LifetimeIsMaxAge ==
    [][\A r \in Slots :
          (Starts(r) /\ isGet(req'[r].method)
             /\ fullUrl(req'[r].endpoint) \in DOMAIN apiCache)
          => LET url == fullUrl(req'[r].endpoint)
                 created == [NoResp EXCEPT
                               !.maxAge = CacheControlOf(req'[r].endpoint)]
                 age == clock * TickMs - apiCache[url].timestamp
             IN (url \notin DOMAIN apiCache')
                   <=> (age > parsedMaxAge(created) * 1000)]_vars

\* the server handles the call of caller c in this step
Handled(c) == pending[c] # NoCall /\ pending'[c] = NoCall

\* C12: every book has 0 <= available <= quantity.
C12_AvailableWithinQuantity ==
    \A b \in DOMAIN books :
       0 <= books[b].available /\ books[b].available <= books[b].quantity

C12_Witness ==
    /\ result.op = "updateBook" /\ result.status = "ok"
    /\ \E b \in DOMAIN books :
          /\ books[b].available = 0
          /\ books[b].quantity > 0
          /\ borrowedCount(records, b) = books[b].quantity
    /\ \E b \in DOMAIN books : books[b].available = books[b].quantity

\* C13: every book's available is its quantity minus the number of its
\* records with status borrowed.
C13_AvailableIsQuantityMinusBorrowed ==
    \A b \in DOMAIN books :
       books[b].available = books[b].quantity - borrowedCount(records, b)

C13_Witness ==
    /\ result.op = "updateBook" /\ result.status = "ok"
    /\ \E b \in DOMAIN books :
          /\ borrowedCount(records, b) = 1
          /\ books[b].available = 1
          /\ \E i \in 1..Len(records) :
                records[i].book = b /\ records[i].status = "returned"

\* C14: a borrow of an existing book with available > 0 takes exactly one
\* from available and adds one record with status borrowed and no return
\* timestamp; with available = 0 it fails with OutOfStock and changes
\* neither the books nor the records.
C14_BorrowDecrementsOrOutOfStock ==
    [][\A c \in Callers :
          (Handled(c) /\ pending[c].op = "borrow" /\ pending[c].valid
             /\ pending[c].book \in DOMAIN books)
          => LET b == pending[c].book IN
             IF books[b].available > 0
             THEN /\ result'.status = "ok"
                  /\ books' = [books EXCEPT ![b].available = books[b].available - 1]
                  /\ records' = records \o
                        << [book |-> b, status |-> "borrowed", returnedAt |-> NoTime] >>
             ELSE /\ books[b].available = 0
                  /\ result'.status = "OutOfStock"
                  /\ books' = books
                  /\ records' = records]_vars

C14_Witness ==
    /\ result.op = "borrow" /\ result.status = "OutOfStock"
    /\ \E i \in 1..Len(records) :
          /\ records[i].status = "borrowed"
          /\ records[i].book \in DOMAIN books
          /\ books[records[i].book].available = 0

\* C15: returning a borrowed record sets its status to returned, stamps it
\* and adds exactly one to the book's available; returning a returned record
\* fails with AlreadyReturned and changes nothing; a returned record never
\* changes again.
C15_ReturnOnce ==
    [][/\ \A c \in Callers :
            (Handled(c) /\ pending[c].op = "returnBook"
               /\ pending[c].record \in 1..Len(records))
            => LET id == pending[c].record
                   b == records[id].book
               IN IF records[id].status = "borrowed"
                  THEN /\ result'.status = "ok"
                       /\ records'[id].returnedAt # NoTime
                       /\ records' = [records EXCEPT
                                         ![id].status = "returned",
                                         ![id].returnedAt = records'[id].returnedAt]
                       /\ books' = [books EXCEPT ![b].available = books[b].available + 1]
                  ELSE /\ result'.status = "AlreadyReturned"
                       /\ records' = records
                       /\ books' = books
       /\ \A i \in 1..Len(records) :
            records[i].status = "returned" => records'[i] = records[i]]_vars

C15_Witness ==
    /\ result.op = "returnBook" /\ result.status = "AlreadyReturned"
    /\ \E i \in 1..Len(records) :
          records[i].status = "returned" /\ records[i].returnedAt # NoTime

\* C16: deleting a book that has a borrowed record fails with Conflict and
\* the book stays; deleting a book without one succeeds and removes it.
C16_DeleteGuardedByBorrows ==
    [][\A c \in Callers :
          (Handled(c) /\ pending[c].op = "deleteBook"
             /\ pending[c].book \in DOMAIN books)
          => LET b == pending[c].book IN
             IF \E i \in 1..Len(records) :
                   records[i].book = b /\ records[i].status = "borrowed"
             THEN /\ result'.status = "Conflict"
                  /\ books' = books
             ELSE /\ result'.status = "ok"
                  /\ books' = [k \in DOMAIN books \ {b} |-> books[k]]]_vars

C16_Witness ==
    /\ result.op = "deleteBook" /\ result.status = "Conflict"
    /\ Cardinality(DOMAIN books) < nextId - 1

\* C17: of two borrow calls under way together for a book with available = 1
\* exactly one succeeds, the other fails with OutOfStock, and available is 0
\* after both.
C17_OneOfTwoBorrowsWins ==
    race.stage = "done"
       => /\ race.won = 1 /\ race.lost = 1
          /\ books[race.book].available = 0

C17_Witness ==
    /\ race.stage = "done"
    /\ result.op = "borrow"
    /\ \A c \in Callers : pending[c] = NoCall

\* the least number of pages of perPage items that hold total items
CeilDiv(total, perPage) ==
    CHOOSE n \in 0..total : n * perPage >= total /\ (n = 0 \/ (n - 1) * perPage < total)

\* the positions, in the sorted match, of the items on a page
ItemsOfPage(total, perPage, page) ==
    {i \in 1..total : (page - 1) * perPage < i /\ i <= page * perPage}

\* C18: a list query returns pages = ceil(total / perPage), hasNext =
\* (page < pages), hasPrev = (page > 1) and the items of the page; a page
\* beyond pages returns no items, the same metadata and no error; the range
\* the client shows for a page within pages is the range of the items.
C18_PaginationResult ==
    listing.pc = "answered"
       => LET pages == CeilDiv(listing.total, listing.perPage)
              items == ItemsOfPage(listing.total, listing.perPage, listing.page)
              info == showResultInfo([page |-> listing.page,
                                      per_page |-> listing.perPage,
                                      total |-> listing.total])
          IN /\ listing.status = "ok"
             /\ listing.pages = pages
             /\ listing.hasNext = (listing.page < pages)
             /\ listing.hasPrev = (listing.page > 1)
             /\ {listing.first + k : k \in 0..(listing.count - 1)} = items
             /\ listing.page > pages => listing.count = 0
             /\ (listing.page <= pages)
                   => info.shown /\ items = info.start .. info.end

C18_Witness ==
    /\ listing.pc = "answered"
    /\ listing.total = 25 /\ listing.perPage = 10 /\ listing.page = 3
    /\ listing.count = 5 /\ listing.first = 21
    /\ listing.pages = 3 /\ ~listing.hasNext /\ listing.hasPrev

\* C21: every cache entry is keyed by the full URL of a GET, has an ETag and
\* holds the payload and the ETag of one 2xx GET response for that URL; a
\* response to a mutation, a non-2xx response or a response without an ETag
\* neither creates nor overwrites an entry.
C21_EntriesComeFromGetResponses ==
    /\ [](\A url \in DOMAIN apiCache :
             /\ \E c \in GetCalls : url = fullUrl(c.endpoint)
             /\ apiCache[url].etag # NoETag
             /\ apiCache[url].data.present /\ apiCache[url].data.success
             /\ apiCache[url].etag = ETagOf(apiCache[url].data.data))
    /\ [][\A r \in Slots :
             (Returns(r)
                /\ (isMutation(req[r].method) \/ ~ok(req[r].resp.status)
                      \/ req[r].resp.etag = NoETag))
             => \A url \in DOMAIN apiCache' :
                   url \in DOMAIN apiCache /\ apiCache'[url] = apiCache[url]]_vars

C21_Witness ==
    /\ Cardinality(DOMAIN apiCache) >= 2
    /\ returned.via = "end"
    /\ returned.ret.ok
    /\ returned.stored = "no"
    /\ fullUrl(returned.endpoint) \in DOMAIN apiCache
    /\ apiCache[fullUrl(returned.endpoint)].data # returned.ret.result

\* C24: the payload returned on a 304 is the payload that was stored with
\* the ETag the request sent in If-None-Match.
C24_NotModifiedReturnsValidatedPayload ==
    [][\A r \in Slots :
          (Returns(r) /\ returned'.via = "not modified")
          => /\ req[r].inm # NoETag
             /\ ETagOf(returned'.ret.result.data) = req[r].inm]_vars

\* C25: a 401 removes the stored token only when the stored token is the one
\* the failing request was sent with; the token of a later login survives
\* the 401 of a request of an earlier session.
C25_StaleUnauthorizedKeepsToken ==
    [][\A r \in Slots :
          (/\ Returns(r)
           /\ returned'.via = "unauthorized"
           /\ req[r].auth # authHeader(token))
          => token' = token]_vars

\* C26: while no token is stored the cache holds no entry.
C26_NoTokenNoEntries ==
    token = NoToken => DOMAIN apiCache = {}

\* C27: while the dashboard, books or borrow-records view is active a token
\* is stored.
C27_MainViewsNeedToken ==
    view \in MainViews => token # NoToken

\* C28: a mutation answered with an error status other than 401 purges the
\* same entries as a successful one; a 401 empties the cache instead, and a
\* failure to obtain or parse the response purges nothing.
C28_ErrorResponsePurgesToo ==
    [][\A r \in Slots :
          (Returns(r) /\ isMutation(req[r].method))
          => IF returned'.via = "end"
             THEN apiCache' = invalidate(apiCache, req[r].endpoint)
             ELSE IF returned'.via = "unauthorized"
                  THEN DOMAIN apiCache' = {}
                  ELSE apiCache' = apiCache]_vars

C28_Witness ==
    /\ returned.via = "end"
    /\ \E c \in MutationCalls : returned.endpoint = c.endpoint
    /\ returned.ret.status = 400
    /\ returned.dropped # {}
    /\ \A url \in returned.dropped : url \notin DOMAIN apiCache

\* the page numbers of the rendered buttons, in order
NumbersOf(html) ==
    LET Sel == SelectSeq(html, LAMBDA e : e.tag = "button")
    IN [i \in 1..Len(Sel) |-> Sel[i].page]

\* C22: for pages >= 1 and 1 <= page <= pages the rendered page numbers are
\* strictly increasing and include 1, the last page and the current page;
\* exactly the current page's button is active and disabled; up to 7 pages
\* every page is rendered; above 7 an ellipsis stands exactly between two
\* consecutive rendered numbers that are not adjacent.
C22_PageNumbersRendered ==
    strip.pc = "rendered" =>
       LET html == strip.html
           nums == NumbersOf(html)
       IN /\ \A i \in 1..(Len(nums) - 1) : nums[i] < nums[i + 1]
          /\ \A n \in {1, strip.pages, strip.page} :
                \E i \in 1..Len(nums) : nums[i] = n
          /\ \A i \in 1..Len(html) :
                html[i].tag = "button" =>
                   /\ html[i].active = (html[i].page = strip.page)
                   /\ html[i].disabled = (html[i].page = strip.page)
                   /\ html[i].page \in 1..strip.pages
          /\ strip.pages <= 7 =>
                /\ Len(html) = strip.pages
                /\ \A i \in 1..Len(html) : html[i].tag = "button" /\ html[i].page = i
          /\ strip.pages > 7 =>
                /\ \A i \in 1..Len(html) :
                      html[i].tag = "span" =>
                         /\ 1 < i /\ i < Len(html)
                         /\ html[i - 1].tag = "button" /\ html[i + 1].tag = "button"
                         /\ html[i + 1].page > html[i - 1].page + 1
                /\ \A i \in 1..(Len(html) - 1) :
                      (html[i].tag = "button" /\ html[i + 1].tag = "button")
                      => html[i + 1].page = html[i].page + 1

C22_Witness ==
    /\ strip.pc = "rendered"
    /\ strip.pages > 7
    /\ strip.page = 4
    /\ Len(SelectSeq(strip.html, LAMBDA e : e.tag = "span")) = 2
    /\ NumbersOf(strip.html) = <<1, 3, 4, 5, strip.pages>>

\* C23: after a burst of debounceSearch calls exactly one reload fires, 500 ms
\* after the last call, and loads page 1 of the list type of that call; a
\* reload pending from an earlier call, also one for the other list type,
\* is cancelled.
C23_OneReloadAfterBurst ==
    /\ [](/\ Cardinality(timeouts) <= 1
          /\ \A t \in timeouts : t.id = searchDebounceTimer /\ t.type = typed.type
          /\ fired # NoFired =>
                /\ fired.after = DebounceMs
                /\ fired.type = typed.type
                /\ timeouts = {}
                /\ currentPage[fired.type] = 1
                /\ loads[Len(loads)] = ListCall(fired.type, 1, "timer"))
    /\ (typed.burst > 0) ~> (fired # NoFired)

C23_Witness ==
    /\ fired # NoFired
    /\ fired.burst = 2
    /\ fired.types = ListTypes
    /\ fired.type = "borrowRecords"
    /\ loads[Len(loads)] = ListCall("borrowRecords", 1, "timer")

\* C29: once every loadBooks request in flight has completed, the one issued
\* last with success, the books table and pager show the page recorded in
\* currentPage.books, whatever the order of the responses.
C29_ShownPageIsCurrentPage ==
    (/\ \A i \in 1..Len(loads) : loads[i].kind # "books"
     /\ latest = "shown")
    => shown["books"].pagination.page = currentPage["books"]

\* C30: the page the books view reloads after a successful deleteBook is
\* within 1 .. max(1, pages) of the server's result; when the result's total
\* is positive the table has rows and the range start-end has
\* start <= end <= total.
C30_ReloadedPageInRange ==
    (shown["books"].drawn /\ shown["books"].by = "deleteBook") =>
       LET p == shown["books"].pagination
           info == shown["books"].info
       IN /\ 1 <= p.page /\ p.page <= Max(1, p.pages)
          /\ p.total > 0 =>
                /\ shown["books"].rows > 0
                /\ info.shown
                /\ info.start <= info.end
                /\ info.end <= p.total

====
